---------------------------- MODULE Spec2Model ----------------------------
(***************************************************************************)
(* The clipboard capture / classify / paste pipeline of copyous            *)
(* (ClipboardManager, lib/misc/clipboard.ts) as a state machine.           *)
(*                                                                         *)
(* Strings are sequences of grapheme clusters; a cluster is a TLA+ string  *)
(* naming it ("a", "e_acute", "thumbs_up", ...).  A cluster has a width in *)
(* UTF-16 code units (what String.length, slice and substring count) and a *)
(* UTF-8 byte sequence (what GLib hashes and what travels over the         *)
(* clipboard).  JS null / undefined is the empty record-free value chosen  *)
(* per type: the empty tuple for an optional tuple or string, and the      *)
(* record NoContent for an optional ClipboardContent.                      *)
(***************************************************************************)
EXTENDS Integers, Sequences, FiniteSets, TLC

\* --------------------------------------------------------------- bounds
MaxMimes == 3
MaxTextLen == 2
MaxCharactersBound == 9
MaxHandlers == 2
MaxSources == 3
MaxLoads == 1
TickMs == 125

\* ------------------------------------------------------- generic helpers
Max(a, b) == IF a >= b THEN a ELSE b

Min(a, b) == IF a <= b THEN a ELSE b

Range(s) == {s[i] : i \in 1..Len(s)}

RECURSIVE Flatten(_)
Flatten(ss) ==
    IF ss = <<>> THEN <<>> ELSE Head(ss) \o Flatten(Tail(ss))

\* Array.prototype.join(sep)
RECURSIVE Join(_, _)
Join(ss, sep) ==
    IF ss = <<>> THEN <<>>
    ELSE IF Len(ss) = 1 THEN Head(ss)
    ELSE Head(ss) \o sep \o Join(Tail(ss), sep)

\* Array.prototype.find over a preference list: Array.prototype.includes on
\* the advertised list is membership.  <<>> stands for undefined.
RECURSIVE Find(_, _)
Find(prefs, advertised) ==
    IF prefs = <<>> THEN <<>>
    ELSE IF Head(prefs) \in advertised THEN <<Head(prefs)>>
    ELSE Find(Tail(prefs), advertised)

\* ------------------------------------------------------------ JS strings
WhiteSpace == {" ", "\n", "\t"}

NL == <<"\n">>

\* UTF-16 code units of one grapheme cluster.
Units16(c) ==
    CASE c = "thumbs_up" -> 2      \* U+1F44D, one surrogate pair
      [] c = "family" -> 8         \* three emoji joined by two ZWJ
      [] c = "e_combining" -> 2    \* e + U+0301
      [] c = "zalgo" -> 1000       \* z + 999 combining marks, one cluster
      [] OTHER -> 1

\* UTF-8 bytes of one grapheme cluster.
Utf8Bytes(c) ==
    CASE c = "e_acute" -> <<"C3", "A9">>
      [] c = "e_combining" -> <<"e", "CC", "81">>
      [] c = "thumbs_up" -> <<"F0", "9F", "91", "8D">>
      [] c = "zalgo" -> <<"z">> \o [i \in 1..1998 |-> IF i % 2 = 1 THEN "CC" ELSE "81"]
      [] c = "family" -> <<"F0", "9F", "91", "A8", "E2", "80", "8D",
                           "F0", "9F", "91", "A9", "E2", "80", "8D",
                           "F0", "9F", "91", "A7">>
      [] OTHER -> <<c>>

\* String.prototype.length
RECURSIVE JsLength(_)
JsLength(s) ==
    IF s = <<>> THEN 0 ELSE Units16(Head(s)) + JsLength(Tail(s))

\* TextEncoder.encode / the UTF-8 form GJS hands to GLib
Utf8(s) == Flatten([i \in 1..Len(s) |-> Utf8Bytes(s[i])])

\* TextDecoder.decode: regroups the multi-byte sequences, U+FFFD for a byte
\* that starts none.
RECURSIVE Utf8Decode(_)
Utf8Decode(b) ==
    LET multi == {"e_acute", "e_combining", "thumbs_up", "family"}
        hit == {c \in multi : Len(b) >= Len(Utf8Bytes(c))
                                /\ SubSeq(b, 1, Len(Utf8Bytes(c))) = Utf8Bytes(c)}
        ascii == Head(b) \notin {"C3", "A9", "CC", "81", "F0", "9F", "91", "8D",
                                 "A8", "E2", "80", "A7"}
    IN  IF b = <<>> THEN <<>>
        ELSE IF hit # {}
            THEN LET c == CHOOSE x \in hit : TRUE
                 IN  <<c>> \o Utf8Decode(SubSeq(b, Len(Utf8Bytes(c)) + 1, Len(b)))
        ELSE IF ascii THEN <<Head(b)>> \o Utf8Decode(Tail(b))
        ELSE <<"U+FFFD">> \o Utf8Decode(Tail(b))

RECURSIVE TrimStart(_)
TrimStart(s) ==
    IF s # <<>> /\ Head(s) \in WhiteSpace THEN TrimStart(Tail(s)) ELSE s

RECURSIVE TrimEnd(_)
TrimEnd(s) ==
    IF s # <<>> /\ s[Len(s)] \in WhiteSpace
    THEN TrimEnd(SubSeq(s, 1, Len(s) - 1)) ELSE s

\* String.prototype.trim
Trim(s) == TrimEnd(TrimStart(s))

\* String.prototype.split('\n')
RECURSIVE SplitLines(_)
SplitLines(s) ==
    LET idx == {i \in 1..Len(s) : s[i] = "\n"}
    IN  IF idx = {} THEN <<s>>
        ELSE LET k == CHOOSE i \in idx : \A j \in idx : i <= j
             IN  <<SubSeq(s, 1, k - 1)>> \o SplitLines(SubSeq(s, k + 1, Len(s)))

\* Array.prototype.filter((f) => f.length !== 0)
RECURSIVE FilterNonEmpty(_)
FilterNonEmpty(ss) ==
    IF ss = <<>> THEN <<>>
    ELSE IF Head(ss) = <<>> THEN FilterNonEmpty(Tail(ss))
    ELSE <<Head(ss)>> \o FilterNonEmpty(Tail(ss))

\* String.prototype.startsWith
StartsWith(s, p) == Len(s) >= Len(p) /\ SubSeq(s, 1, Len(p)) = p

\* String.prototype.substring(n) on a string of one-unit characters; a
\* wider cluster that straddles n stays whole.
RECURSIVE Substring(_, _)
Substring(s, n) ==
    IF n <= 0 \/ s = <<>> THEN s ELSE Substring(Tail(s), n - Units16(Head(s)))

\* decodeURI: a %20 escape becomes a space; the other characters stand.
RECURSIVE DecodeURI(_)
DecodeURI(s) ==
    IF s = <<>> THEN <<>>
    ELSE IF StartsWith(s, <<"%", "2", "0">>)
        THEN <<" ">> \o DecodeURI(SubSeq(s, 4, Len(s)))
    ELSE <<Head(s)>> \o DecodeURI(Tail(s))


\* A slice that keeps the whole string.
JsSliceWhole(s, n) == s

\* String.prototype.slice(0, n), in UTF-16 code units
RECURSIVE JsSlice(_, _)
JsSlice(s, n) ==
    IF s = <<>> \/ Units16(Head(s)) > n THEN <<>>
    ELSE <<Head(s)>> \o JsSlice(Tail(s), n - Units16(Head(s)))

\* ------------------------------------------------------------- constants
MimeText == <<"text/plain", "text/plain;charset=utf-8", "STRING", "UTF8_STRING">>

MimeImage == <<"image/png", "image/jxl", "image/webp", "image/avif", "image/jpeg">>

MimeFile == <<"x-special-gnome-copied-files", "text/uri-list">>

MimeSensitive == <<"x-kde-passwordManagerHint">>

\* A type the manager does not know, advertised by real applications.
MimeOther == <<"text/html">>

ContentTypes == {"Text", "Image", "File"}

\* FileOperation of lib/misc/db.ts: the first line of a
\* x-special-gnome-copied-files payload.
FileOperationCopy == <<"c", "o", "p", "y">>

FileOperationCut == <<"c", "u", "t">>

ItemTypes == {"Text", "Code", "Link", "Character", "Color", "Image", "File", "Files"}

\* ------------------------------------------------------ ClipboardContent
\* The tagged union, one record shape; the fields a variant lacks are empty.
NoContent ==
    [type |-> "null", text |-> <<>>, mimetype |-> "", data |-> <<>>,
     checksum |-> <<>>, paths |-> <<>>, operation |-> <<>>]

TextContent(t) == [NoContent EXCEPT !.type = "Text", !.text = t]

ImageContent(m, d, c) ==
    [NoContent EXCEPT !.type = "Image", !.mimetype = m, !.data = d, !.checksum = c]

FileContent(ps, op) ==
    [NoContent EXCEPT !.type = "File", !.paths = ps, !.operation = op]

\* --------------------------------------------------------------- checksum
\* An MD5 digest, collision-free: the digest names the bytes hashed, and is
\* never the empty string.
Md5(bytes) == <<"md5">> \o bytes

\* GLib.compute_checksum_for_bytes
ComputeChecksumForBytes(bytes) == Md5(bytes)

\* GLib.compute_checksum_for_string(MD5, str, length): the first `length`
\* bytes of the UTF-8 string, all of it when length is negative.
ComputeChecksumForString(str, length) ==
    IF length < 0 THEN Md5(Utf8(str))
    ELSE Md5(SubSeq(Utf8(str), 1, Min(length, Len(Utf8(str)))))

FileChecksumString(paths) ==
    Join([i \in 1..Len(paths) |-> Substring(DecodeURI(paths[i]), 7)], NL)

contentChecksum(content) ==
    CASE content.type = "Text" ->
            ComputeChecksumForString(content.text, JsLength(content.text))
      [] content.type = "Image" -> content.checksum
      [] content.type = "File" ->
            ComputeChecksumForString(FileChecksumString(content.paths),
                                     JsLength(FileChecksumString(content.paths)))
      [] OTHER -> <<>>

\* ------------------------------------------------------------ acquisition
\* What the system clipboard backend holds for its current owner: the
\* advertised MIME types, the bytes get_content hands back for an image type
\* and for a file-list type, and the string get_text hands back (<<>>: null).
ClipboardOffer(mimes, image, file, text) ==
    [mimetypes |-> mimes, image |-> image, file |-> file, text |-> text]

\* A getContent that looks for an image type before the sensitive one.
getContentRequestImageFirst(mimeTypes) ==
    IF Find(MimeImage, mimeTypes) # <<>>
        THEN [category |-> "Image", mimetype |-> Find(MimeImage, mimeTypes)]
    ELSE IF \E value \in Range(MimeSensitive) : value \in mimeTypes
        THEN [category |-> "Sensitive", mimetype |-> <<>>]
    ELSE IF Find(MimeFile, mimeTypes) # <<>>
        THEN [category |-> "File", mimetype |-> Find(MimeFile, mimeTypes)]
    ELSE IF Find(MimeText, mimeTypes) # <<>>
        THEN [category |-> "Text", mimetype |-> Find(MimeText, mimeTypes)]
    ELSE [category |-> "None", mimetype |-> <<>>]

\* A getContent that looks for a file-list type before an image type.
getContentRequestFileFirst(mimeTypes) ==
    IF \E value \in Range(MimeSensitive) : value \in mimeTypes
        THEN [category |-> "Sensitive", mimetype |-> <<>>]
    ELSE IF Find(MimeFile, mimeTypes) # <<>>
        THEN [category |-> "File", mimetype |-> Find(MimeFile, mimeTypes)]
    ELSE IF Find(MimeImage, mimeTypes) # <<>>
        THEN [category |-> "Image", mimetype |-> Find(MimeImage, mimeTypes)]
    ELSE IF Find(MimeText, mimeTypes) # <<>>
        THEN [category |-> "Text", mimetype |-> Find(MimeText, mimeTypes)]
    ELSE [category |-> "None", mimetype |-> <<>>]

\* getContent, the promise executor: the MIME type it asks the backend for.
\* category "Sensitive" and "None" resolve null at once, with no request.
getContentRequest(mimeTypes) ==
    IF \E value \in Range(MimeSensitive) : value \in mimeTypes
        THEN [category |-> "Sensitive", mimetype |-> <<>>]
    ELSE IF Find(MimeImage, mimeTypes) # <<>>
        THEN [category |-> "Image", mimetype |-> Find(MimeImage, mimeTypes)]
    ELSE IF Find(MimeFile, mimeTypes) # <<>>
        THEN [category |-> "File", mimetype |-> Find(MimeFile, mimeTypes)]
    ELSE IF Find(MimeText, mimeTypes) # <<>>
        THEN [category |-> "Text", mimetype |-> Find(MimeText, mimeTypes)]
    ELSE [category |-> "None", mimetype |-> <<>>]

\* A parse that takes every line for a path.
ParseFileListNoMarker(bytes) ==
    LET text == Trim(Utf8Decode(bytes))
        lines == SplitLines(text)
        files == FilterNonEmpty([i \in 1..Len(lines) |-> Trim(lines[i])])
    IN  IF text # <<>> THEN FileContent(files, FileOperationCopy) ELSE NoContent

\* The file-list callback's parse of the decoded payload.
ParseFileList(bytes) ==
    LET text == Trim(Utf8Decode(bytes))
        lines == SplitLines(text)
        files == FilterNonEmpty([i \in 1..Len(lines) |-> Trim(lines[i])])
    IN  IF text # <<>>
        THEN IF files[1] = FileOperationCopy \/ files[1] = FileOperationCut
             THEN FileContent(Tail(files), files[1])
             ELSE FileContent(files, FileOperationCopy)
        ELSE NoContent

\* getContent, the backend's callback for the request made.
getContentResolve(request, offer) ==
    CASE request.category = "Image" ->
            IF Len(offer.image) > 0
            THEN ImageContent(request.mimetype[1], offer.image,
                              ComputeChecksumForBytes(offer.image))
            ELSE NoContent
      [] request.category = "File" -> ParseFileList(offer.file)
      [] request.category = "Text" ->
            IF offer.text # <<>> /\ Trim(offer.text) # <<>>
            THEN TextContent(offer.text)
            ELSE NoContent
      [] OTHER -> NoContent

getContent(offer) == getContentResolve(getContentRequest(offer.mimetypes), offer)

\* --------------------------------------------------------- classification
NoMetadata == [language |-> <<>>, operation |-> <<>>]

NoResult == [type |-> "null", content |-> <<>>, metadata |-> NoMetadata]

Result(type, content, metadata) ==
    [type |-> type, content |-> content, metadata |-> metadata]

Letters ==
    {"a", "b", "c", "d", "e", "f", "h", "l", "o", "p", "r", "t", "w", "x", "y"}

HexDigits == {"0", "1", "2", "a", "b", "c", "d", "e", "f"}

\* GLib.uri_is_valid(s, NONE): an absolute URI has a scheme of letters ended
\* by ':', and no character outside the URI character set.
GLibUriIsValid(s) ==
    LET colons == {i \in 1..Len(s) : s[i] = ":"}
        k == CHOOSE i \in colons : \A j \in colons : i <= j
    IN  /\ colons # {}
        /\ k > 1
        /\ \A i \in 1..(k - 1) : s[i] \in Letters
        /\ \A i \in 1..Len(s) :
              /\ s[i] \notin WhiteSpace \cup {"[", "]", "<", ">", "U+FFFD"}
              /\ Utf8Bytes(s[i]) = <<s[i]>>

\* GLib.uri_is_valid as GJS binds it: true for a valid URI; for an invalid
\* one the binding either returns false or throws the GLib.Error, which of
\* the two being the environment's.
UriIsValidOutcome(s, failure) == IF GLibUriIsValid(s) THEN "true" ELSE failure

\* A Link test with no catch around it.
TryLinkNoCatch(trimmed, failure) ==
    IF ~StartsWith(trimmed, <<"h", "t", "t", "p">>) THEN "not-link"
    ELSE IF UriIsValidOutcome(trimmed, failure) = "true" THEN "link"
    ELSE IF UriIsValidOutcome(trimmed, failure) = "throws" THEN "throws"
    ELSE "not-link"

\* The Link test, try and catch: "link" when the block returns, "not-link"
\* when it falls through or the catch swallows what was thrown, "throws"
\* when an exception leaves it.
TryLink(trimmed, failure) ==
    IF ~StartsWith(trimmed, <<"h", "t", "t", "p">>) THEN "not-link"
    ELSE IF UriIsValidOutcome(trimmed, failure) = "true" THEN "link"
    ELSE "not-link"

\* An exception leaving convertContent.
Thrown == [type |-> "throws", content |-> <<>>, metadata |-> NoMetadata]

\* Color.parse of lib/common/color.ts, as a predicate: #rgb, #rrggbb or a
\* colour name.
ColorParse(s) ==
    \/ /\ Len(s) \in {4, 7}
       /\ s[1] = "#"
       /\ \A i \in 2..Len(s) : s[i] \in HexDigits
    \/ s = <<"r", "e", "d">>

\* A segmentation into UTF-16 code units.
SegmentsCodeUnits(s) == [i \in 1..JsLength(s) |-> "unit"]

\* new Intl.Segmenter().segment(trimmed): one segment per grapheme cluster.
Segments(s) == s

\* The iterator is advanced maxCharacters times; Character when the next
\* step has no value.
IsCharacter(trimmed, maxCharacters) ==
    Len(Segments(trimmed)) < Max(0, maxCharacters) + 1

\* relevance / Math.max(1, slice.length / 100) >= 3, in integers
RelevanceEnough(relevance, sliceLength) ==
    IF sliceLength <= 100 THEN relevance >= 3 ELSE relevance * 100 >= 3 * sliceLength

\* The display name recorded for a detected language.
LanguageName(id, name) ==
    IF Len(id) < Len(name) - 3 THEN <<Head(id)>> \o Tail(id) ELSE name

\* A convertContent that tries Color before Character.
convertTextColorFirst(text, env) ==
    LET trimmed == Trim(text)
        link == TryLink(trimmed, env.uriFailure)
        slice == JsSlice(trimmed, 10000)
        hl == env.hljs[1]
        id == hl.language
        name == IF hl.name = <<>> THEN id ELSE hl.name
    IN  IF link = "link" THEN Result("Link", text, NoMetadata)
        ELSE IF link = "throws" THEN Thrown
        ELSE IF ColorParse(trimmed) THEN Result("Color", text, NoMetadata)
        ELSE IF IsCharacter(trimmed, env.maxCharacters)
            THEN Result("Character", text, NoMetadata)
        ELSE IF /\ env.hljs # <<>>
                /\ hl.language # <<>>
                /\ RelevanceEnough(hl.relevance, JsLength(slice))
            THEN Result("Code", text,
                        [NoMetadata EXCEPT !.language = <<id, LanguageName(id, name)>>])
        ELSE Result("Text", text, NoMetadata)

\* convertContent on a Text payload.  env: the settings and collaborators of
\* the call: max-characters, how uri_is_valid reports an invalid URI ("false"
\* or "throws"), and what highlightAuto returns for the slice (<<>>:
\* highlight.js not loaded; language <<>>: none identified; name <<>>:
\* getLanguage knows no name).
convertText(text, env) ==
    LET trimmed == Trim(text)
        link == TryLink(trimmed, env.uriFailure)
        slice == JsSlice(trimmed, 10000)
        hl == env.hljs[1]
        id == hl.language
        name == IF hl.name = <<>> THEN id ELSE hl.name
    IN  IF link = "link" THEN Result("Link", text, NoMetadata)
        ELSE IF link = "throws" THEN Thrown
        ELSE IF IsCharacter(trimmed, env.maxCharacters)
            THEN Result("Character", text, NoMetadata)
        ELSE IF ColorParse(trimmed) THEN Result("Color", text, NoMetadata)
        ELSE IF /\ env.hljs # <<>>
                /\ hl.language # <<>>
                /\ RelevanceEnough(hl.relevance, JsLength(slice))
            THEN Result("Code", text,
                        [NoMetadata EXCEPT !.language = <<id, LanguageName(id, name)>>])
        ELSE Result("Text", text, NoMetadata)

\* convertContent on a FileList payload.
convertFile(content) ==
    IF Len(content.paths) = 1
    THEN Result("File", content.paths[1],
                [NoMetadata EXCEPT !.operation = content.operation])
    ELSE Result("Files", Join(content.paths, NL),
                [NoMetadata EXCEPT !.operation = content.operation])

\* Image classification's product: the URI of the content-addressed file.
ImageUri(checksum) == <<"file:///images/">> \o checksum

\* ------------------------------------------------------------------ state
VARIABLES
    signalId,        \* ClipboardManager.signalId: the owner-changed handler id, -1 when detached
    pasteSignalId,   \* ClipboardManager.pasteSignalId: the pending paste source, -1 when none
    prevClipboard,   \* ClipboardManager.prevClipboard: <<>> (null) or <<type, checksum>>
    keyboardAlive,   \* FALSE once keyboard.destroy() ran
    settings,        \* Gio.Settings, read at the moment of use
    focusExcluded,   \* the focused window's wm_class is in wmclass-exclusions
    purpose,         \* keyboard.purpose of the focused input context
    clipboard,       \* what the CLIPBOARD selection's owner offers
    primary,         \* the text of the PRIMARY selection as set by the manager
    tracking,        \* whether the owner-changed handlers are followed
    handlers,        \* the ownerChanged invocations in flight, in order of their events
    imageFiles,      \* the checksums that name a file in the images directory
    sources,         \* the GLib timeout sources attached to the main context
    sourceSeq,       \* source ids handed out so far
    lastRequest,     \* history: the last pasteContent call
    cancelled,       \* history: how many paste sources were removed before dispatch
    injections,      \* history: how many key sequences were injected
    lastInjection,   \* history: the last key sequence injected
    entries,         \* the history entries a caller may replay
    loads,           \* the pasteEntry calls suspended in load_contents_async
    lastSignal,      \* history: the last signal emitted, its argument, and
                     \* a bit that flips at every emission
    input,           \* the argument of a function under test
    output,          \* its result
    enabled,         \* the extension is enabled: its settings object is defined
    historyTime,     \* the history-time setting
    historyTimeoutId,\* CopyousExtension.historyTimeoutId
    updateHistory,   \* CopyousExtension.updateHistory
    historyTimers,   \* the ids of the retention timers attached to the main context
    historySeq,      \* retention timers added so far
    suspended        \* the initHistoryTimeout calls awaiting deleteOldest

vars ==
    <<signalId, pasteSignalId, prevClipboard, keyboardAlive, settings,
      focusExcluded, purpose, clipboard, primary, tracking, handlers,
      imageFiles, sources, sourceSeq, lastRequest, cancelled, injections,
      lastInjection, entries, loads, lastSignal, input, output, enabled,
      historyTime, historyTimeoutId, updateHistory, historyTimers, historySeq,
      suspended>>

managerVars == <<signalId, pasteSignalId, prevClipboard, keyboardAlive>>

envVars == <<settings, focusExcluded, purpose>>

pasteVars ==
    <<sources, sourceSeq, lastRequest, cancelled, injections, lastInjection, entries>>

probeVars == <<input, output>>

extensionVars ==
    <<enabled, historyTime, historyTimeoutId, updateHistory, historyTimers,
      historySeq, suspended>>

\* ------------------------------------------------------- sample contents
TextAB == <<"a", "b">>

TextCD == <<"c", "d">>

PathA == <<"f", "i", "l", "e", ":", "/", "/", "/", "a">>

ImageBytes == <<"89", "P", "N", "G">>

EmptyOffer == ClipboardOffer({}, <<>>, <<>>, <<>>)

\* What other applications put on the clipboard: an image, a file selection, the text a desktop leaves when the owner of that file
\* selection goes away, and a password manager's secret.
ExternalOffers ==
    { ClipboardOffer({"image/png", "text/html"}, ImageBytes, <<>>, <<>>),
      ClipboardOffer({"x-special-gnome-copied-files", "text/plain"}, <<>>,
                     Utf8(FileOperationCopy \o NL \o PathA), PathA),
      ClipboardOffer({"text/plain"}, <<>>, <<>>, <<"/", "a">>),
      ClipboardOffer({"x-kde-passwordManagerHint", "text/plain", "image/png"},
                     ImageBytes, <<>>, TextCD) }

\* More of what a password manager may offer: the hint alone, beside a file
\* list, and beside the last types of the image and text lists.
SensitiveOffers ==
    { ClipboardOffer({"x-kde-passwordManagerHint"}, <<>>, <<>>, TextCD),
      ClipboardOffer({"x-kde-passwordManagerHint", "text/uri-list"}, <<>>,
                     Utf8(PathA), <<>>),
      ClipboardOffer({"x-kde-passwordManagerHint", "image/jpeg", "UTF8_STRING"},
                     ImageBytes, <<>>, TextCD) }

\* St.Clipboard.set_text: the offer the shell then makes.
SetText(text) == ClipboardOffer(Range(MimeText), <<>>, <<>>, text)

\* St.Clipboard.set_content(type, mimetype, bytes)
SetContent(mimetype, bytes) ==
    ClipboardOffer({mimetype},
                   IF mimetype \in Range(MimeImage) THEN bytes ELSE <<>>,
                   IF mimetype \in Range(MimeFile) THEN bytes ELSE <<>>,
                   <<>>)

ContentKey(content) == <<content.type, contentChecksum(content)>>

\* ------------------------------------------------------------- ownerChanged
\* One invocation of ownerChanged for a CLIPBOARD event, suspended at an
\* await.  offer: the owner's offer when the handler asked for the content,
\* which is what the transfer it started reads from, so that the content it
\* acquires is getContent(offer).  delivered: for the event a delivery raised,
\* the (type, checksum) that delivery committed.
Handler(delivered, offer) ==
    [delivered |-> delivered, offer |-> offer, pc |-> "acquiring",
     result |-> NoResult, wrote |-> FALSE]

Remove(hs, i) == SubSeq(hs, 1, i - 1) \o SubSeq(hs, i + 1, Len(hs))

\* Meta.Selection emits owner-changed for the CLIPBOARD selection and the
\* handler runs to its first await; with no request made (a sensitive type,
\* or none it knows) it is over at once.
OwnerChanged(delivered, offer) ==
    IF tracking /\ signalId >= 0 /\ getContentRequest(offer.mimetypes).mimetype # <<>>
    THEN Append(handlers, Handler(delivered, offer))
    ELSE handlers

CanEmit == ~tracking \/ signalId < 0 \/ Len(handlers) < MaxHandlers

\* A shouldSave that never vetoes.
shouldSaveAlways == TRUE

\* shouldSave
shouldSave == ~focusExcluded /\ ~settings.incognito

\* A duplicate check that knows only the same type and checksum.
IsDuplicateSameKind(prev, content, checksum) ==
    /\ prev # <<>>
    /\ prev[1] = content.type /\ prev[2] = checksum

\* The duplicate check of ownerChanged.
IsDuplicate(prev, content, checksum) ==
    /\ prev # <<>>
    /\ \/ prev[1] = content.type /\ prev[2] = checksum
       \/ prev[1] = "File" /\ content.type = "Text" /\ prev[2] = checksum

\* What highlightAuto may return while the manager runs.
HljsOutcomes ==
    { <<>>,
      <<[language |-> <<"j", "s">>, relevance |-> 4, name |-> <<"J", "S">>]>> }

\* Another handler's replace_contents_async for this checksum is under way:
\* its worker thread may or may not have created the file yet.
BeingWritten(checksum) ==
    \E k \in 1..Len(handlers) :
        /\ handlers[k].pc = "writing"
        /\ getContent(handlers[k].offer).checksum = checksum

\* convertContent from its call to its first await or its return: the
\* handler as it then stands, <<>> when the result is null.  io: the file
\* system's part: "error" when the images directory cannot be made,
\* "created" when a write under way has created the file already.
Classified(h, content, hl, io) ==
    CASE content.type = "Text" ->
            <<[h EXCEPT !.pc = "inserting",
                        !.result = convertText(content.text,
                                      [maxCharacters |-> settings.maxCharacters,
                                       uriFailure |-> "throws",
                                       hljs |-> hl])]>>
      [] content.type = "File" ->
            <<[h EXCEPT !.pc = "inserting", !.result = convertFile(content)]>>
      [] OTHER ->
            IF io = "error" THEN <<>>
            ELSE IF \/ content.checksum \in imageFiles
                    \/ io = "created" /\ BeingWritten(content.checksum)
            THEN <<[h EXCEPT !.pc = "inserting",
                             !.result = Result("Image", ImageUri(content.checksum),
                                               NoMetadata)]>>
            ELSE <<[h EXCEPT !.pc = "writing", !.wrote = TRUE]>>

\* this.emit(signal, argument), as the history variable records it.
NoSignal == [signal |-> "", argument |-> <<>>, flip |-> FALSE]

Emit(signal, argument) ==
    [signal |-> signal, argument |-> argument, flip |-> ~lastSignal.flip]

\* The backend's callback, and the handler's run from there to its next
\* await: the duplicate check, the commit of prevClipboard, shouldSave, and
\* convertContent up to its own await or to the call of tracker.insert.
Resolve(i) ==
    /\ i \in 1..Len(handlers)
    /\ handlers[i].pc = "acquiring"
    /\ LET h == handlers[i]
           content == getContentResolve(getContentRequest(h.offer.mimetypes), h.offer)
           checksum == contentChecksum(content)
       IN  IF content = NoContent \/ checksum = <<>>
           THEN /\ handlers' = Remove(handlers, i)
                /\ UNCHANGED prevClipboard
           ELSE IF IsDuplicate(prevClipboard, content, checksum)
           THEN /\ handlers' = Remove(handlers, i)
                /\ UNCHANGED prevClipboard
           ELSE /\ prevClipboard' = <<content.type, checksum>>
                /\ IF ~shouldSave
                   THEN handlers' = Remove(handlers, i)
                   ELSE \E hl \in HljsOutcomes, io \in {"ok", "error", "created"} :
                          handlers' = SubSeq(handlers, 1, i - 1)
                                        \o Classified(h, content, hl, io)
                                        \o SubSeq(handlers, i + 1, Len(handlers))
    /\ UNCHANGED <<signalId, pasteSignalId, keyboardAlive, envVars, clipboard,
                   primary, tracking, imageFiles, pasteVars, loads, lastSignal,
                   probeVars, extensionVars>>

\* replace_contents_async completes and tracker.insert is called, or it
\* fails and the result is null.
Written(i) ==
    /\ i \in 1..Len(handlers)
    /\ handlers[i].pc = "writing"
    /\ \E io \in {"ok", "error"} :
        LET h == handlers[i]
            checksum == getContent(h.offer).checksum
        IN  IF io = "ok"
            THEN /\ imageFiles' = imageFiles \cup {checksum}
                 /\ handlers' = [handlers EXCEPT ![i] =
                       [h EXCEPT !.pc = "inserting",
                                 !.result = Result("Image", ImageUri(checksum),
                                                   NoMetadata)]]
            ELSE /\ handlers' = Remove(handlers, i)
                 /\ UNCHANGED imageFiles
    /\ UNCHANGED <<managerVars, envVars, clipboard, primary, tracking, pasteVars,
                   loads, lastSignal, probeVars, extensionVars>>

\* What tracker.insert settles with: an entry, null, or a rejection.
InsertOutcomes == {<<"entry">>, <<>>, <<"throws">>}

\* A handler that emits whatever insert resolved with.
InsertDoneEmitsNull(i) ==
    /\ i \in 1..Len(handlers)
    /\ handlers[i].pc = "inserting"
    /\ \E r \in InsertOutcomes :
        lastSignal' = IF r # <<"throws">> THEN Emit("clipboard", r) ELSE lastSignal
    /\ handlers' = Remove(handlers, i)
    /\ UNCHANGED <<managerVars, envVars, clipboard, primary, tracking, imageFiles,
                   pasteVars, loads, probeVars, extensionVars>>

\* tracker.insert settles: an entry, which is emitted, null, or a rejection
\* that is logged.
InsertDone(i) ==
    /\ i \in 1..Len(handlers)
    /\ handlers[i].pc = "inserting"
    /\ \E r \in InsertOutcomes :
        lastSignal' = IF r # <<"throws">> /\ r # <<>> THEN Emit("clipboard", r)
                                                      ELSE lastSignal
    /\ handlers' = Remove(handlers, i)
    /\ UNCHANGED <<managerVars, envVars, clipboard, primary, tracking, imageFiles,
                   pasteVars, loads, probeVars, extensionVars>>

\* Another application takes the clipboard.
ExternalCopy(offer) ==
    /\ offer \in ExternalOffers \cup SensitiveOffers
    /\ CanEmit
    /\ clipboard' = offer
    /\ handlers' = OwnerChanged(<<>>, offer)
    /\ UNCHANGED <<managerVars, envVars, primary, tracking, imageFiles, pasteVars,
                   loads, lastSignal, probeVars, extensionVars>>

\* ---------------------------------------------------------------- delivery
PasteDelay == 250

\* copyContent: nothing at all when the checksum is falsy, else the commit of
\* prevClipboard, the write of the clipboard (and of PRIMARY for a text
\* under sync-primary), and the owner-changed event the write raises.
copyContent(content) ==
    IF contentChecksum(content) = <<>>
    THEN UNCHANGED <<prevClipboard, clipboard, primary, handlers>>
    ELSE /\ prevClipboard' = <<content.type, contentChecksum(content)>>
         /\ clipboard' =
              CASE content.type = "Text" -> SetText(content.text)
                [] content.type = "Image" -> SetContent(content.mimetype, content.data)
                [] OTHER -> SetContent(MimeFile[1],
                               Utf8(FileOperationCopy \o NL \o Join(content.paths, NL)))
         /\ primary' = IF content.type = "Text" /\ settings.syncPrimary
                       THEN content.text ELSE primary
         /\ handlers' = OwnerChanged(ContentKey(content), clipboard')

\* The pending paste source, if any.
PendingPaste == {s \in sources : s.id = pasteSignalId}

\* A source_remove that leaves the source attached.
SourceRemoveNothing(ss, id) == ss

\* GLib.source_remove(id)
SourceRemove(ss, id) == {s \in ss : s.id # id}

\* A pasteContent that adds its source without removing the pending one.
SchedulePasteKeepPending(ss, pending, id) == ss \cup {[id |-> id, age |-> 0]}

\* pasteContent's scheduling: cancel the pending source, add the new one.
SchedulePaste(ss, pending, id) ==
    (IF pending >= 0 THEN SourceRemove(ss, pending) ELSE ss)
        \cup {[id |-> id, age |-> 0]}

\* pasteContent.  The history keeps of the call: the content, the flag as
\* read, whether a source added less than the delay before was pending, and
\* the input purpose at the time of the call.
pasteContent(content) ==
    /\ copyContent(content)
    /\ lastRequest' =
          <<[content |-> content,
             flag |-> settings.pasteOnCopy,
             within |-> \E s \in PendingPaste : s.age < PasteDelay,
             purpose |-> purpose]>>
    /\ IF ~settings.pasteOnCopy
       THEN UNCHANGED <<pasteSignalId, sources, sourceSeq, cancelled>>
       ELSE /\ sources' = SchedulePaste(sources, pasteSignalId, sourceSeq + 1)
            /\ cancelled' = cancelled + Cardinality(sources) + 1 - Cardinality(sources')
            /\ pasteSignalId' = sourceSeq + 1
            /\ sourceSeq' = sourceSeq + 1

CanRequest == ~settings.pasteOnCopy \/ sourceSeq < MaxSources

\* A callback that sends Ctrl+v whatever the purpose.
PasteKeysStandard(p) ==
    << <<"press", "Control_L">>, <<"press", "v">>,
       <<"release", "v">>, <<"release", "Control_L">> >>

\* The key events of the paste source's callback.
PasteKeys(p) ==
    IF p = "TERMINAL"
    THEN << <<"press", "Control_L">>, <<"press", "Shift_L">>, <<"press", "V">>,
            <<"release", "V">>, <<"release", "Shift_L">>, <<"release", "Control_L">> >>
    ELSE << <<"press", "Control_L">>, <<"press", "v">>,
            <<"release", "v">>, <<"release", "Control_L">> >>

\* The main loop dispatches a timeout source no earlier than its interval.
PasteTimeout(s) ==
    /\ s \in sources
    /\ s.age >= PasteDelay
    /\ injections' = injections + 1
    /\ lastInjection' = <<[id |-> s.id, keys |-> PasteKeys(purpose),
                           alive |-> keyboardAlive]>>
    /\ pasteSignalId' = -1
    /\ sources' = sources \ {s}
    /\ UNCHANGED <<signalId, prevClipboard, keyboardAlive, envVars, clipboard,
                   primary, tracking, handlers, imageFiles, sourceSeq, lastRequest,
                   cancelled, entries, loads, lastSignal, probeVars, extensionVars>>

\* Time passes while a source waits; a due source may be dispatched late.
Tick ==
    /\ sources # {}
    /\ \A s \in sources : s.age <= PasteDelay
    /\ sources' = {[s EXCEPT !.age = s.age + TickMs] : s \in sources}
    /\ UNCHANGED <<managerVars, envVars, clipboard, primary, tracking, handlers,
                   imageFiles, sourceSeq, lastRequest, cancelled, injections,
                   lastInjection, entries, loads, lastSignal, probeVars, extensionVars>>

CopyText(s) ==
    /\ CanEmit
    /\ copyContent(TextContent(s))
    /\ lastSignal' = Emit("text", s)
    /\ UNCHANGED <<signalId, pasteSignalId, keyboardAlive, envVars, tracking,
                   imageFiles, pasteVars, loads, probeVars, extensionVars>>

PasteText(s) ==
    /\ CanEmit
    /\ CanRequest
    /\ pasteContent(TextContent(s))
    /\ UNCHANGED <<signalId, keyboardAlive, envVars, tracking, imageFiles,
                   injections, lastInjection, entries, loads, lastSignal, probeVars, extensionVars>>

CopyPng(data) ==
    /\ CanEmit
    /\ IF ComputeChecksumForBytes(data) = <<>>
       THEN UNCHANGED <<prevClipboard, clipboard, primary, handlers, lastSignal>>
       ELSE /\ copyContent(ImageContent("image/png", data, ComputeChecksumForBytes(data)))
            /\ lastSignal' = Emit("image", data)
    /\ UNCHANGED <<signalId, pasteSignalId, keyboardAlive, envVars, tracking,
                   imageFiles, pasteVars, loads, probeVars, extensionVars>>

\* A pasteEntry that stamps the entry whatever the setting.
UpdateDateAlways(es, k, flag) == [es EXCEPT ![k].datetime = "now"]

\* if (update-date-on-copy) entry.datetime = now
UpdateDate(es, k, flag) ==
    IF flag THEN [es EXCEPT ![k].datetime = "now"] ELSE es

\* pasteEntry up to its await (an Image entry) or to its end (the others).
PasteEntry(k) ==
    /\ k \in 1..Len(entries)
    /\ CanEmit
    /\ CanRequest
    /\ entries[k].type = "Image" => loads < MaxLoads
    /\ entries' = UpdateDate(entries, k, settings.updateDateOnCopy)
    /\ LET entry == entries[k]
       IN  CASE entry.type \in {"Text", "Code", "Link", "Character", "Color"} ->
                  /\ pasteContent(TextContent(entry.content))
                  /\ UNCHANGED loads
             [] entry.type = "Image" ->
                  /\ loads' = loads + 1
                  /\ UNCHANGED <<pasteSignalId, prevClipboard, clipboard, primary,
                                 handlers, sources, sourceSeq, lastRequest, cancelled>>
             [] OTHER ->
                  /\ pasteContent(FileContent(SplitLines(entry.content),
                                              FileOperationCopy))
                  /\ UNCHANGED loads
    /\ UNCHANGED <<signalId, keyboardAlive, envVars, tracking, imageFiles,
                   injections, lastInjection, lastSignal, probeVars, extensionVars>>

\* load_contents_async settles for a suspended pasteEntry: the image's bytes
\* with a MIME type guessed, no MIME type, or an error.
PasteEntryLoaded(r) ==
    /\ loads > 0
    /\ r \in {"loaded", "no-mimetype", "error"}
    /\ CanEmit
    /\ r = "loaded" => CanRequest
    /\ loads' = loads - 1
    /\ IF r = "loaded"
       THEN pasteContent(ImageContent("image/png", ImageBytes, <<>>))
       ELSE UNCHANGED <<pasteSignalId, prevClipboard, clipboard, primary, handlers,
                        sources, sourceSeq, lastRequest, cancelled>>
    /\ UNCHANGED <<signalId, keyboardAlive, envVars, tracking, imageFiles,
                   injections, lastInjection, entries, lastSignal, probeVars, extensionVars>>

\* A destroy that leaves the paste source attached.
destroyLeavesPaste ==
    /\ keyboardAlive' = FALSE
    /\ signalId' = -1
    /\ pasteSignalId' = -1
    /\ UNCHANGED <<prevClipboard, envVars, clipboard, primary, tracking, handlers,
                   imageFiles, sources, sourceSeq, cancelled, lastRequest, injections,
                   lastInjection, entries, loads, lastSignal, probeVars, extensionVars>>

destroy ==
    /\ keyboardAlive' = FALSE
    /\ sources' = IF pasteSignalId >= 0 THEN SourceRemove(sources, pasteSignalId)
                  ELSE sources
    /\ cancelled' = cancelled + Cardinality(sources) - Cardinality(sources')
    /\ signalId' = -1
    /\ pasteSignalId' = -1
    /\ UNCHANGED <<prevClipboard, envVars, clipboard, primary, tracking, handlers,
                   imageFiles, sourceSeq, lastRequest, injections, lastInjection,
                   entries, loads, lastSignal, probeVars, extensionVars>>

\* ------------------------------------------------------------ environment
ChangeSetting(key) ==
    /\ key \in {"paste-on-copy", "update-date-on-copy", "incognito"}
    /\ settings' =
         CASE key = "paste-on-copy" ->
                [settings EXCEPT !.pasteOnCopy = ~settings.pasteOnCopy]
           [] key = "update-date-on-copy" ->
                [settings EXCEPT !.updateDateOnCopy = ~settings.updateDateOnCopy]
           [] OTHER -> [settings EXCEPT !.incognito = ~settings.incognito]
    /\ UNCHANGED <<managerVars, focusExcluded, purpose, clipboard, primary,
                   tracking, handlers, imageFiles, pasteVars, loads, lastSignal,
                   probeVars, extensionVars>>

FocusChange(p) ==
    /\ p \in {"NORMAL", "TERMINAL"}
    /\ p # purpose
    /\ purpose' = p
    /\ UNCHANGED <<managerVars, settings, focusExcluded, clipboard, primary,
                   tracking, handlers, imageFiles, pasteVars, loads, lastSignal,
                   probeVars, extensionVars>>

FocusWindow(excluded) ==
    /\ excluded \in BOOLEAN
    /\ excluded # focusExcluded
    /\ focusExcluded' = excluded
    /\ UNCHANGED <<managerVars, settings, purpose, clipboard, primary, tracking,
                   handlers, imageFiles, pasteVars, loads, lastSignal, probeVars, extensionVars>>

\* -------------------------------------------------------------- extension
\* The values history-time takes.
HistoryTimes == {0, 7, 30}

\* What the manager's variables hold while the extension has no manager.
NoManager ==
    /\ signalId' = -1
    /\ pasteSignalId' = -1
    /\ keyboardAlive' = FALSE

\* initHistoryTimeout up to its await, or to its return when there is no
\* settings object or history-time is 0.  It is called from enable and from
\* the handler of changed::history-time, which have set enabled' and
\* historyTime'.
initHistoryTimeout ==
    /\ historyTimers' = IF historyTimeoutId >= 0
                        THEN historyTimers \ {historyTimeoutId} ELSE historyTimers
    /\ suspended' = IF ~enabled' \/ historyTime' = 0 THEN suspended ELSE suspended + 1
    /\ UNCHANGED <<historyTimeoutId, historySeq, updateHistory>>

\* Calls suspended at once, and timers added, stay within the bounds.
CanInitHistory == suspended < MaxHandlers /\ historySeq + suspended < MaxSources

\* enable: the settings object, the first initHistoryTimeout, and a new
\* ClipboardManager.
enable ==
    /\ ~enabled
    /\ CanInitHistory
    /\ enabled' = TRUE
    /\ historyTime' = historyTime
    /\ initHistoryTimeout
    /\ signalId' = 1
    /\ pasteSignalId' = -1
    /\ keyboardAlive' = TRUE
    /\ UNCHANGED <<prevClipboard, envVars, clipboard, primary, tracking, handlers,
                   imageFiles, pasteVars, loads, lastSignal, probeVars>>

\* The user changes history-time; the handler connected at line 96 runs
\* initHistoryTimeout.  After disable the handler is still connected to the
\* settings object enable made, which may or may not be alive to call it.
ChangeHistoryTime(value) ==
    /\ value \in HistoryTimes
    /\ value # historyTime
    /\ CanInitHistory
    /\ historyTime' = value
    /\ enabled' = enabled
    /\ \/ initHistoryTimeout
       \/ /\ ~enabled
          /\ UNCHANGED <<historyTimeoutId, historyTimers, historySeq, suspended,
                         updateHistory>>
    /\ UNCHANGED <<managerVars, envVars, clipboard, primary, tracking, handlers,
                   imageFiles, pasteVars, loads, lastSignal, probeVars>>

\* deleteOldest settles for a suspended initHistoryTimeout: the timer is
\* added and its id stored, or the call ends with the rejection.
HistoryResume(r) ==
    /\ r \in {"done", "rejected"}
    /\ suspended > 0
    /\ suspended' = suspended - 1
    /\ IF r = "done"
       THEN /\ historySeq' = historySeq + 1
            /\ historyTimers' = historyTimers \cup {historySeq + 1}
            /\ historyTimeoutId' = historySeq + 1
       ELSE UNCHANGED <<historySeq, historyTimers, historyTimeoutId>>
    /\ UNCHANGED <<managerVars, envVars, clipboard, primary, tracking, handlers,
                   imageFiles, pasteVars, loads, lastSignal, probeVars, enabled,
                   historyTime, updateHistory>>

\* A retention timer fires; it returns SOURCE_CONTINUE and stays attached.
HistoryTimeout(id) ==
    /\ id \in historyTimers
    /\ \E opened \in (IF enabled THEN BOOLEAN ELSE {FALSE}) :
          updateHistory' = opened
    /\ UNCHANGED <<managerVars, envVars, clipboard, primary, tracking, handlers,
                   imageFiles, pasteVars, loads, lastSignal, probeVars, enabled,
                   historyTime, historyTimeoutId, historyTimers, historySeq,
                   suspended>>

\* disable: the settings object is dropped, the timer historyTimeoutId names
\* is removed, and the manager is destroyed.
disable ==
    /\ enabled
    /\ enabled' = FALSE
    /\ historyTimers' = IF historyTimeoutId >= 0
                        THEN historyTimers \ {historyTimeoutId} ELSE historyTimers
    /\ historyTimeoutId' = -1
    /\ NoManager
    /\ UNCHANGED <<prevClipboard, envVars, clipboard, primary, tracking, handlers,
                   imageFiles, pasteVars, loads, lastSignal, probeVars, historyTime,
                   updateHistory, historySeq, suspended>>

\* ------------------------------------------------------------------- Init
\* The entries of an earlier session's history.
HistoryEntries ==
    << [type |-> "Text", content |-> TextAB, metadata |-> NoMetadata,
        datetime |-> "captured"],
       [type |-> "Image", content |-> ImageUri(Md5(ImageBytes)),
        metadata |-> NoMetadata, datetime |-> "captured"],
       [type |-> "File", content |-> PathA,
        metadata |-> [NoMetadata EXCEPT !.operation = FileOperationCopy],
        datetime |-> "captured"] >>

DefaultSettings ==
    [pasteOnCopy |-> FALSE, syncPrimary |-> FALSE, updateDateOnCopy |-> FALSE,
     incognito |-> FALSE, maxCharacters |-> 1]

\* The manager as its constructor leaves it, in a session whose settings are
\* st and whose owner-changed handlers are followed or not, inside an
\* enabled extension whose history-time is 0.
Constructed(st, track) ==
    /\ enabled = TRUE
    /\ historyTime = 0
    /\ historyTimeoutId = -1
    /\ updateHistory = FALSE
    /\ historyTimers = {}
    /\ historySeq = 0
    /\ suspended = 0
    /\ signalId = 1
    /\ pasteSignalId = -1
    /\ prevClipboard = <<>>
    /\ keyboardAlive = TRUE
    /\ settings = st
    /\ focusExcluded = FALSE
    /\ purpose = "NORMAL"
    /\ clipboard = EmptyOffer
    /\ primary = <<>>
    /\ tracking = track
    /\ handlers = <<>>
    /\ imageFiles = {}
    /\ sources = {}
    /\ sourceSeq = 0
    /\ lastRequest = <<>>
    /\ cancelled = 0
    /\ injections = 0
    /\ lastInjection = <<>>
    /\ entries = HistoryEntries
    /\ loads = 0
    /\ lastSignal = NoSignal

Init ==
    /\ Constructed(DefaultSettings, TRUE)
    /\ input = <<>>
    /\ output = <<>>

\* Capture: the owner-changed handlers, the deliveries that feed them, the
\* save policy and teardown.
Next ==
    \/ \E offer \in ExternalOffers : ExternalCopy(offer)
    \/ \E i \in 1..MaxHandlers : Resolve(i)
    \/ \E i \in 1..MaxHandlers : Written(i)
    \/ \E i \in 1..MaxHandlers : InsertDone(i)
    \/ CopyText(TextAB)
    \/ CopyPng(ImageBytes)
    \/ PasteEntry(3)
    \/ ChangeSetting("incognito")
    \/ destroy

Spec == Init /\ [][Next]_vars

\* The manager's own deliveries and the events they raise, alone.
NextDelivery ==
    \/ CopyText(TextAB)
    \/ CopyPng(ImageBytes)
    \/ \E i \in 1..MaxHandlers : Resolve(i)
    \/ \E i \in 1..MaxHandlers : Written(i)
    \/ \E i \in 1..MaxHandlers : InsertDone(i)

SpecDelivery == Init /\ [][NextDelivery]_vars

\* Capture of what other applications copy, with no delivery of the
\* manager's own in between.
NextExternal ==
    \/ \E offer \in ExternalOffers \cup SensitiveOffers : ExternalCopy(offer)
    \/ \E i \in 1..MaxHandlers : Resolve(i)
    \/ \E i \in 1..MaxHandlers : Written(i)
    \/ \E i \in 1..MaxHandlers : InsertDone(i)

SpecExternal == Init /\ [][NextExternal]_vars

\* The same, with incognito mode switched on and off meanwhile.
NextCapture ==
    \/ \E offer \in ExternalOffers \cup SensitiveOffers : ExternalCopy(offer)
    \/ \E i \in 1..MaxHandlers : Resolve(i)
    \/ \E i \in 1..MaxHandlers : Written(i)
    \/ \E i \in 1..MaxHandlers : InsertDone(i)
    \/ ChangeSetting("incognito")

SpecCapture == Init /\ [][NextCapture]_vars

\* The same again, with the focus also moving to and from a window whose
\* class is excluded.
NextVeto ==
    \/ \E offer \in ExternalOffers \cup SensitiveOffers : ExternalCopy(offer)
    \/ \E i \in 1..MaxHandlers : Resolve(i)
    \/ \E i \in 1..MaxHandlers : Written(i)
    \/ \E i \in 1..MaxHandlers : InsertDone(i)
    \/ ChangeSetting("incognito")
    \/ \E excluded \in BOOLEAN : FocusWindow(excluded)

SpecVeto == Init /\ [][NextVeto]_vars

\* Teardown: a manager with paste-on-copy set, whose deliveries both start a
\* handler and schedule a paste, beside another application's copies, the
\* main loop, and destroy.
PlainTextOffer == ClipboardOffer({"text/plain"}, <<>>, <<>>, <<"/", "a">>)

InitTeardown ==
    /\ Constructed([DefaultSettings EXCEPT !.pasteOnCopy = TRUE], TRUE)
    /\ input = <<>>
    /\ output = <<>>

NextTeardown ==
    \/ ExternalCopy(PlainTextOffer)
    \/ \E i \in 1..MaxHandlers : Resolve(i)
    \/ \E i \in 1..MaxHandlers : InsertDone(i)
    \/ PasteText(TextAB)
    \/ \E s \in sources : PasteTimeout(s)
    \/ Tick
    \/ destroy

SpecTeardown == InitTeardown /\ [][NextTeardown]_vars

\* Paste: the deliveries that schedule the paste source, the main loop that
\* dispatches it, the flag and the focus it reads, and teardown.  The
\* owner-changed handlers share no variable with the paste source and are
\* not followed.
InitPaste ==
    /\ \E flag \in BOOLEAN :
          Constructed([DefaultSettings EXCEPT !.pasteOnCopy = flag], FALSE)
    /\ input = <<>>
    /\ output = <<>>

NextPaste ==
    \/ PasteText(TextAB)
    \/ \E k \in 1..Len(HistoryEntries) : PasteEntry(k)
    \/ \E r \in {"loaded", "no-mimetype", "error"} : PasteEntryLoaded(r)
    \/ \E s \in sources : PasteTimeout(s)
    \/ Tick
    \/ ChangeSetting("paste-on-copy")
    \/ \E p \in {"NORMAL", "TERMINAL"} : FocusChange(p)
    \/ destroy

SpecPaste == InitPaste /\ [][NextPaste]_vars

\* ------------------------------------------------------------ acquisition
\* getContent on its own: any offer of at most MaxMimes of the types
\* applications advertise, with the payloads below behind them.
MimePool ==
    Range(MimeSensitive) \cup Range(MimeImage) \cup Range(MimeFile)
        \cup Range(MimeText) \cup Range(MimeOther)

FilePayloads ==
    { <<"c", "o", "p", "y", "\n", "/", "a", "/", "b", "\n", "/", "a", "/", "c">>,
      <<"C", "o", "p", "y", "\n", "/", "a", "/", "b", "\n", "/", "a", "/", "c">>,
      <<"/", "a", "/", "b">>,
      <<"c", "u", "t", "\n", "/", "a", "/", "b", "\n">>,
      <<"c", "o", "p", "y", "\n", " ", "\n", " ", "/", "e_acute", " ", "\n">>,
      <<"c", "o", "p", "y", "\n">>,
      <<"c", "u", "t">>,
      <<" ", "\n", " ">>,
      <<>> }

AcquireInputs ==
    { ClipboardOffer(m, i, Utf8(f), t) :
        m \in {x \in SUBSET MimePool : Cardinality(x) <= MaxMimes},
        i \in {<<>>, ImageBytes},
        f \in FilePayloads,
        t \in {<<>>, <<" ">>, TextAB} }

InitAcquire ==
    /\ Constructed(DefaultSettings, FALSE)
    /\ input \in AcquireInputs
    /\ output = <<>>

\* The request getContent makes, the content it resolves with, and what
\* convertContent makes of a file list.
Acquire ==
    /\ output = <<>>
    /\ output' = <<[request |-> getContentRequest(input.mimetypes),
                    content |-> getContent(input),
                    result |-> IF getContent(input).type = "File"
                               THEN convertFile(getContent(input)) ELSE NoResult]>>
    /\ UNCHANGED <<managerVars, envVars, clipboard, primary, tracking, handlers,
                   imageFiles, pasteVars, loads, lastSignal, input,
                   extensionVars>>

SpecAcquire == InitAcquire /\ [][Acquire]_vars

\* --------------------------------------------------------- classification
\* convertContent on a Text payload on its own.
Alphabet == {" ", "a", "e_combining"}

RECURSIVE Words(_)
Words(n) ==
    IF n = 0 THEN {<<>>}
    ELSE Words(n - 1) \cup {Append(w, c) : w \in Words(n - 1), c \in Alphabet}

\* A run of one character.
Repeat(c, n) == [i \in 1..n |-> c]

\* A text of 8 * f + a code units in f + a clusters.
Units(f, a) == Repeat("family", f) \o Repeat("a", a)

\* Texts for the Code threshold: 50, 100, 101 and 200 code units, and 11,000
\* and 12,000 code units in clusters of 1000.
LongTexts ==
    { Units(5, 10), Units(11, 12), Units(11, 13), Units(24, 8),
      <<" ">> \o Units(24, 8) \o <<"\n">>,
      Repeat("zalgo", 11), Repeat("zalgo", 12) }

ClassifyTexts ==
    {w \in Words(MaxTextLen) : Trim(w) # <<>>} \cup LongTexts \cup
    { <<"h", "t", "t", "p", ":", "/", "/", "a">>,
      <<" ", "h", "t", "t", "p", ":", "/", "/", "a", "\n">>,
      <<"h", "t", "t", "p", ":">>,
      <<"h", "t", "t", "p">>,
      <<"h", "t", "t", "p", ":", "/", "/", "[">>,
      <<"h", "t", "t", "p", ":", "/", "/", "a", " ", "b">>,
      <<"#", "f", "f", "f">>,
      <<"#", "f", "f", "f", "\n">>,
      <<"#", "0", "0", "f", "f", "a", "a">>,
      <<"#", "f", "f", "f", "f">>,
      <<"r", "e", "d">>,
      <<"family">>,
      <<"thumbs_up", "thumbs_up">>,
      <<"family", "thumbs_up", "e_acute", "e_combining">>,
      <<"x", "=", "1", ";", "y", "=", "2", ";">>,
      <<" ", "l", "e", "t", " ", "x", " ", "=", " ", "1", "\n">> }

ClassifyHljs ==
    { <<>>,
      <<[language |-> <<>>, relevance |-> 0, name |-> <<>>]>>,
      <<[language |-> <<"j", "s">>, relevance |-> 2, name |-> <<"J", "S">>]>>,
      <<[language |-> <<"j", "s">>, relevance |-> 3, name |-> <<"J", "S">>]>>,
      <<[language |-> <<"c">>, relevance |-> 5, name |-> <<>>]>>,
      <<[language |-> <<>>, relevance |-> 300, name |-> <<>>]>>,
      <<[language |-> <<"j", "s">>, relevance |-> 4, name |-> <<"J", "S">>]>>,
      <<[language |-> <<"j", "s">>, relevance |-> 6, name |-> <<"J", "S">>]>>,
      <<[language |-> <<"j", "s">>, relevance |-> 299, name |-> <<"J", "S">>]>>,
      <<[language |-> <<"j", "s">>, relevance |-> 300, name |-> <<"J", "S">>]>>,
      <<[language |-> <<"j", "s">>, relevance |-> 329, name |-> <<"J", "S">>]>>,
      <<[language |-> <<"t", "s">>, relevance |-> 300,
         name |-> <<"T", "y", "p", "e", "S", "c", "r", "i", "p", "t">>]>> }

ClassifyInputs ==
    { [text |-> t, env |-> [maxCharacters |-> m, uriFailure |-> f, hljs |-> h]] :
        t \in ClassifyTexts, m \in 1..MaxCharactersBound,
        f \in {"false", "throws"}, h \in ClassifyHljs }

InitClassify ==
    /\ Constructed(DefaultSettings, FALSE)
    /\ input \in ClassifyInputs
    /\ output = <<>>

Classify ==
    /\ output = <<>>
    /\ output' = <<convertText(input.text, input.env)>>
    /\ UNCHANGED <<managerVars, envVars, clipboard, primary, tracking, handlers,
                   imageFiles, pasteVars, loads, lastSignal, input,
                   extensionVars>>

SpecClassify == InitClassify /\ [][Classify]_vars

\* Replay: pasteEntry on the entries of the history, delivery only, with
\* update-date-on-copy switched on and off meanwhile.
InitReplay ==
    /\ Constructed(DefaultSettings, FALSE)
    /\ input = <<>>
    /\ output = <<>>

NextReplay ==
    \/ \E k \in 1..Len(HistoryEntries) : PasteEntry(k)
    \/ \E r \in {"loaded", "no-mimetype", "error"} : PasteEntryLoaded(r)
    \/ ChangeSetting("update-date-on-copy")

SpecReplay == InitReplay /\ [][NextReplay]_vars

\* Retention: the extension from its construction, enabled and disabled,
\* with history-time changing and the retention timer firing.
InitExtension ==
    /\ enabled = FALSE
    /\ historyTime \in HistoryTimes
    /\ historyTimeoutId = -1
    /\ updateHistory = FALSE
    /\ historyTimers = {}
    /\ historySeq = 0
    /\ suspended = 0
    /\ signalId = -1
    /\ pasteSignalId = -1
    /\ prevClipboard = <<>>
    /\ keyboardAlive = FALSE
    /\ settings = DefaultSettings
    /\ focusExcluded = FALSE
    /\ purpose = "NORMAL"
    /\ clipboard = EmptyOffer
    /\ primary = <<>>
    /\ tracking = FALSE
    /\ handlers = <<>>
    /\ imageFiles = {}
    /\ sources = {}
    /\ sourceSeq = 0
    /\ lastRequest = <<>>
    /\ cancelled = 0
    /\ injections = 0
    /\ lastInjection = <<>>
    /\ entries = HistoryEntries
    /\ loads = 0
    /\ lastSignal = NoSignal
    /\ input = <<>>
    /\ output = <<>>

NextExtension ==
    \/ enable
    \/ \E value \in HistoryTimes : ChangeHistoryTime(value)
    \/ \E r \in {"done", "rejected"} : HistoryResume(r)
    \/ \E id \in historyTimers : HistoryTimeout(id)
    \/ disable

SpecExtension == InitExtension /\ [][NextExtension]_vars

\* ------------------------------------------------------------ fingerprint
\* contentChecksum on its own, and the duplicate check on what it returns: two
\* texts of at most MaxTextLen characters, captured one after the other.
ChecksumAlphabet == {"a", "b", "e_acute"}

RECURSIVE ChecksumTexts(_)
ChecksumTexts(n) ==
    IF n = 0 THEN {<<>>}
    ELSE ChecksumTexts(n - 1)
            \cup {Append(w, c) : w \in ChecksumTexts(n - 1), c \in ChecksumAlphabet}

InitChecksum ==
    /\ Constructed(DefaultSettings, FALSE)
    /\ input \in [first : ChecksumTexts(MaxTextLen), second : ChecksumTexts(MaxTextLen)]
    /\ output = <<>>

Checksum ==
    /\ output = <<>>
    /\ LET first == TextContent(input.first)
           second == TextContent(input.second)
       IN  output' = <<[first |-> contentChecksum(first),
                        second |-> contentChecksum(second),
                        duplicate |-> IsDuplicate(<<first.type, contentChecksum(first)>>,
                                                  second, contentChecksum(second))]>>
    /\ UNCHANGED <<managerVars, envVars, clipboard, primary, tracking, handlers,
                   imageFiles, pasteVars, loads, lastSignal, input,
                   extensionVars>>

SpecChecksum == InitChecksum /\ [][Checksum]_vars

\* ================================================================== claims
\* What it is for an offer on the clipboard to carry a content.
Carries(offer, content) ==
    CASE content.type = "Text" -> offer.text = content.text
      [] content.type = "Image" ->
            /\ content.mimetype \in offer.mimetypes
            /\ offer.image = content.data
      [] content.type = "File" ->
            /\ offer.mimetypes \cap Range(MimeFile) # {}
            /\ ParseFileList(offer.file).paths = content.paths
      [] OTHER -> FALSE

\* C1: at most one paste source is attached at any time, and it is the one
\* pasteSignalId names; a pasteContent that schedules removes the pending
\* source in the same step in which it adds its own.
C1_OnePendingPaste ==
    /\ Cardinality(sources) <= 1
    /\ \A s \in sources : s.id = pasteSignalId
    /\ pasteSignalId >= 0 <=> sources # {}

\* A request replaced a pending source and its own source is now the one
\* outstanding.
C1_Witness ==
    /\ lastRequest # <<>>
    /\ lastRequest[1].within
    /\ cancelled >= 1
    /\ Cardinality(sources) = 1

\* C2: when a pasteContent call schedules a source while the source of an
\* earlier call is still pending, less than the delay old, the earlier source
\* is removed without having injected anything and only the new source
\* remains; a key sequence is injected only by a source that has waited the
\* whole delay since the call that added it, once per source; and every
\* source added is pending, cancelled or dispatched.
C2_SecondCallCancelsFirst ==
    /\ [][ /\ (sourceSeq' = sourceSeq + 1 /\ \E s \in sources : s.age < PasteDelay)
              => /\ sources' = {[id |-> sourceSeq', age |-> 0]}
                 /\ cancelled' = cancelled + 1
                 /\ injections' = injections
           /\ injections' # injections
              => /\ injections' = injections + 1
                 /\ \E s \in sources :
                       /\ s.age >= PasteDelay
                       /\ sources' = sources \ {s}
                       /\ lastInjection' [1].id = s.id ]_vars
    /\ [](injections + cancelled + Cardinality(sources) = sourceSeq)

\* Two calls less than the delay apart, and the pair has produced its one key
\* sequence, from the second call's source.
C2_Witness ==
    /\ lastRequest # <<>>
    /\ lastRequest[1].within
    /\ sourceSeq = 2
    /\ cancelled = 1
    /\ injections = 1
    /\ lastInjection[1].id = 2
    /\ sources = {}

\* C4: after a pasteContent call the clipboard carries the content given,
\* whatever its variant and whether or not its checksum is empty, and
\* prevClipboard holds its type and checksum when it has one.
C4_DeliversEveryVariant ==
    lastRequest # <<>> =>
        /\ Carries(clipboard, lastRequest[1].content)
        /\ contentChecksum(lastRequest[1].content) # <<>>
              => prevClipboard = ContentKey(lastRequest[1].content)

\* pasteEntry replayed an Image entry: pasteContent was called with the
\* image's bytes and an empty checksum.
C4_Witness ==
    /\ lastRequest # <<>>
    /\ lastRequest[1].content.type = "Image"
    /\ lastRequest[1].content.checksum = <<>>
    /\ Len(lastRequest[1].content.data) > 0

\* C3: the owner-changed event a delivery raises, whose handler acquires the
\* very (type, checksum) the delivery committed, ends at the duplicate check:
\* its handler never goes on to convertContent or tracker.insert.
C3_OwnWriteSuppressed ==
    \A i \in 1..Len(handlers) :
        (/\ handlers[i].delivered # <<>>
         /\ ContentKey(getContent(handlers[i].offer)) = handlers[i].delivered)
            => handlers[i].pc = "acquiring"

\* The handler of a delivery's own event is waiting for the content it
\* asked for while prevClipboard still holds what the delivery committed.
C3_Witness ==
    \E i \in 1..Len(handlers) :
        /\ handlers[i].delivered # <<>>
        /\ handlers[i].pc = "acquiring"
        /\ prevClipboard = handlers[i].delivered

IsSensitive(offer) == offer.mimetypes \cap Range(MimeSensitive) # {}

\* C5: when the clipboard's new owner advertises the sensitive type, alone
\* or with image, file-list or text types beside it, the event ends at once: no handler waits
\* for content, and prevClipboard, the images directory and the signals
\* emitted are as they were; no handler in flight ever belongs to such an
\* offer.
C5_SensitiveAborts ==
    /\ [][ (clipboard' # clipboard /\ IsSensitive(clipboard'))
              => /\ handlers' = handlers
                 /\ prevClipboard' = prevClipboard
                 /\ imageFiles' = imageFiles
                 /\ lastSignal' = lastSignal ]_vars
    /\ [](\A i \in 1..Len(handlers) : ~IsSensitive(handlers[i].offer))

\* A sensitive offer that also advertises an image and a text type owns the
\* clipboard, the manager is connected, and there is dedup state to keep.
C5_Witness ==
    /\ IsSensitive(clipboard)
    /\ clipboard.mimetypes \cap Range(MimeImage) # {}
    /\ clipboard.mimetypes \cap Range(MimeText) # {}
    /\ signalId >= 0
    /\ prevClipboard # <<>>
    /\ prevClipboard[2] # contentChecksum(TextContent(clipboard.text))

\* The first type of a preference list that is advertised.
FirstAdvertised(prefs, advertised) ==
    prefs[CHOOSE i \in 1..Len(prefs) :
            /\ prefs[i] \in advertised
            /\ \A j \in 1..(i - 1) : prefs[j] \notin advertised]

\* C6: acquisition picks the category by sensitive > image > file list > text
\* over the advertised types; an image request names the first advertised of
\* png, jxl, webp, avif, jpeg; the content is of the category picked or null,
\* never of a lower one: an image type with empty bytes gives null whatever
\* else is advertised; with no type it knows, and with a sensitive one, the
\* result is null and nothing is requested.
C6_AcquisitionPriority ==
    output # <<>> =>
        LET m == input.mimetypes
            r == output[1].request
            c == output[1].content
            sensitive == m \cap Range(MimeSensitive) # {}
            image == m \cap Range(MimeImage) # {}
            file == m \cap Range(MimeFile) # {}
            text == m \cap Range(MimeText) # {}
        IN  /\ sensitive => r.category = "Sensitive"
            /\ (~sensitive /\ image) => r.category = "Image"
            /\ (~sensitive /\ ~image /\ file) => r.category = "File"
            /\ (~sensitive /\ ~image /\ ~file /\ text) => r.category = "Text"
            /\ (~sensitive /\ ~image /\ ~file /\ ~text) => r.category = "None"
            /\ r.category \in {"Sensitive", "None"} => (r.mimetype = <<>> /\ c = NoContent)
            /\ r.category = "Image" =>
                  /\ r.mimetype = <<FirstAdvertised(MimeImage, m)>>
                  /\ c = IF input.image = <<>> THEN NoContent
                         ELSE ImageContent(FirstAdvertised(MimeImage, m), input.image,
                                           Md5(input.image))
            /\ r.category = "File" => r.mimetype = <<FirstAdvertised(MimeFile, m)>>
            /\ r.category = "Text" => r.mimetype = <<FirstAdvertised(MimeText, m)>>
            /\ c # NoContent => c.type = r.category

\* An image type that is not the first of the list is advertised beside a
\* file-list and a text type, the image bytes are empty while the other two
\* payloads are not, and the result is null.
C6_Witness ==
    /\ output # <<>>
    /\ input.mimetypes = {"image/webp", "text/uri-list", "text/plain"}
    /\ input.image = <<>>
    /\ input.text = TextAB
    /\ input.file = Utf8(<<"/", "a", "/", "b">>)
    /\ output[1].request = [category |-> "Image", mimetype |-> <<"image/webp">>]
    /\ output[1].content = NoContent

PathAB == <<"/", "a", "/", "b">>

PathAC == <<"/", "a", "/", "c">>

UpperCopy == <<"C", "o", "p", "y">>

\* The file-list payload acquired, when a file-list type was asked for.
FilePayloadIs(s) ==
    /\ output # <<>>
    /\ output[1].request.category = "File"
    /\ input.file = Utf8(s)

\* C7 as stated: the capture "Copy\n/a/b\n/a/c" gives the paths /a/b and /a/c
\* under the operation Copy, type Files and content "/a/b\n/a/c"; the capture
\* "/a/b" gives operation Copy, type File and content "/a/b".
C7_AsStated ==
    /\ FilePayloadIs(UpperCopy \o NL \o PathAB \o NL \o PathAC) =>
          /\ output[1].content = FileContent(<<PathAB, PathAC>>, FileOperationCopy)
          /\ output[1].result =
                Result("Files", PathAB \o NL \o PathAC,
                       [NoMetadata EXCEPT !.operation = FileOperationCopy])
    /\ FilePayloadIs(PathAB) =>
          /\ output[1].content = FileContent(<<PathAB>>, FileOperationCopy)
          /\ output[1].result =
                Result("File", PathAB,
                       [NoMetadata EXCEPT !.operation = FileOperationCopy])

\* C7, amended: the marker is the literal first line "copy" or "cut", in
\* lower case.  The payload is trimmed and split into trimmed non-empty
\* lines; a first line that is a marker is the operation and the lines after
\* it are the paths, otherwise the operation is copy and every line is a
\* path, a first line "Copy" among them.  One path is a File whose content is
\* that path, any other number is Files whose content is the paths joined by
\* newlines, and the metadata records the operation.
C7_FileListParse ==
    /\ FilePayloadIs(FileOperationCopy \o NL \o PathAB \o NL \o PathAC) =>
          /\ output[1].content = FileContent(<<PathAB, PathAC>>, FileOperationCopy)
          /\ output[1].result =
                Result("Files", PathAB \o NL \o PathAC,
                       [NoMetadata EXCEPT !.operation = FileOperationCopy])
    /\ FilePayloadIs(UpperCopy \o NL \o PathAB \o NL \o PathAC) =>
          /\ output[1].content =
                FileContent(<<UpperCopy, PathAB, PathAC>>, FileOperationCopy)
          /\ output[1].result =
                Result("Files", UpperCopy \o NL \o PathAB \o NL \o PathAC,
                       [NoMetadata EXCEPT !.operation = FileOperationCopy])
    /\ FilePayloadIs(PathAB) =>
          /\ output[1].content = FileContent(<<PathAB>>, FileOperationCopy)
          /\ output[1].result =
                Result("File", PathAB,
                       [NoMetadata EXCEPT !.operation = FileOperationCopy])
    /\ FilePayloadIs(FileOperationCut \o NL \o PathAB \o NL) =>
          /\ output[1].content = FileContent(<<PathAB>>, FileOperationCut)
          /\ output[1].result =
                Result("File", PathAB,
                       [NoMetadata EXCEPT !.operation = FileOperationCut])
    /\ (output # <<>> /\ output[1].content.type = "File") =>
          LET c == output[1].content
              r == output[1].result
          IN  /\ c.operation \in {FileOperationCopy, FileOperationCut}
              /\ \A i \in 1..Len(c.paths) :
                    c.paths[i] # <<>> /\ Trim(c.paths[i]) = c.paths[i]
                       /\ NL[1] \notin Range(c.paths[i])
              /\ r.metadata.operation = c.operation
              /\ r.type = IF Len(c.paths) = 1 THEN "File" ELSE "Files"
              /\ r.content = Join(c.paths, NL)

\* The capture "copy\n/a/b\n/a/c" was acquired as two paths under copy.
C7_Witness ==
    /\ FilePayloadIs(FileOperationCopy \o NL \o PathAB \o NL \o PathAC)
    /\ output[1].content.paths = <<PathAB, PathAC>>
    /\ output[1].result.type = "Files"

\* C8: a file-list acquisition never yields a File content with no paths:
\* a payload that parses to an empty path list resolves null.
C8_NoEmptyFileList ==
    (output # <<>> /\ output[1].content.type = "File")
        => Len(output[1].content.paths) >= 1

\* An empty or whitespace-only file-list payload resolved null.
C8_Witness ==
    /\ output # <<>>
    /\ output[1].request.category = "File"
    /\ Trim(Utf8Decode(input.file)) = <<>>
    /\ input.file # <<>>
    /\ output[1].content = NoContent

\* The predicates of text classification, each on its own.
LinkMatches(text) ==
    /\ Len(Trim(text)) >= 4
    /\ SubSeq(Trim(text), 1, 4) = <<"h", "t", "t", "p">>
    /\ GLibUriIsValid(Trim(text))

CharacterMatches(text, maxCharacters) == Len(Trim(text)) <= maxCharacters

ColorMatches(text) == ColorParse(Trim(text))

CodeMatches(text, hljs) ==
    /\ hljs # <<>>
    /\ hljs[1].language # <<>>
    /\ hljs[1].relevance * 100 >= 3 * Max(100, Min(10000, JsLength(Trim(text))))

\* C9: the type of a text is that of the first predicate it satisfies in the
\* order Link, Character, Color, Code, Text when it satisfies none, and the
\* content is the text as given, untrimmed.
C9_FirstMatchWins ==
    output # <<>> =>
        LET t == input.text
            e == input.env
        IN  /\ output[1].type =
                  IF LinkMatches(t) THEN "Link"
                  ELSE IF CharacterMatches(t, e.maxCharacters) THEN "Character"
                  ELSE IF ColorMatches(t) THEN "Color"
                  ELSE IF CodeMatches(t, e.hljs) THEN "Code"
                  ELSE "Text"
            /\ output[1].content = t

\* A text with surrounding whitespace that parses as a colour, has no more
\* clusters than the maximum and would pass for code was classified
\* Character, with its whitespace kept.
C9_Witness ==
    /\ output # <<>>
    /\ ColorMatches(input.text)
    /\ CharacterMatches(input.text, input.env.maxCharacters)
    /\ CodeMatches(input.text, input.env.hljs)
    /\ Trim(input.text) # input.text
    /\ output[1].type = "Character"
    /\ output[1].content = input.text

\* C10 as stated: a text whose trimmed cluster count is under max-characters
\* is a Character.
C10_AsStated ==
    (output # <<>> /\ Len(Trim(input.text)) < input.env.maxCharacters)
        => output[1].type = "Character"

\* C10, amended: a text whose trimmed text has no more grapheme clusters than
\* max-characters is a Character, unless the trimmed text starts with "http"
\* and is a valid URI, which makes it a Link; it is never Text, Color or
\* Code.  A cluster counts once however many code units it takes.
C10_CharacterUnlessLink ==
    (output # <<>> /\ Len(Trim(input.text)) <= input.env.maxCharacters)
        => /\ output[1].type \in {"Character", "Link"}
           /\ output[1].type = "Link" <=> LinkMatches(input.text)

\* Clusters of several code units each, more code units in all than
\* max-characters and no more clusters than it: a Character.
C10_Witness ==
    /\ output # <<>>
    /\ Len(Trim(input.text)) <= input.env.maxCharacters
    /\ JsLength(Trim(input.text)) > input.env.maxCharacters
    /\ \E i \in 1..Len(input.text) : input.text[i] = "family"
    /\ output[1].type = "Character"

\* C11: a text whose trimmed form starts with "http" and is a valid URI is a
\* Link; one that starts with "http" and is not a valid URI, whether
\* uri_is_valid returns false or throws, is what the Character, Color, Code
\* and Text stages make of it, which is never Link, and no exception leaves
\* convertContent.
C11_LinkOrAbsorbed ==
    output # <<>> =>
        LET t == input.text
            e == input.env
            http == StartsWith(Trim(t), <<"h", "t", "t", "p">>)
        IN  /\ output[1].type # "throws"
            /\ (http /\ GLibUriIsValid(Trim(t))) => output[1].type = "Link"
            /\ (http /\ ~GLibUriIsValid(Trim(t))) =>
                  output[1].type =
                      IF CharacterMatches(t, e.maxCharacters) THEN "Character"
                      ELSE IF ColorMatches(t) THEN "Color"
                      ELSE IF CodeMatches(t, e.hljs) THEN "Code"
                      ELSE "Text"

\* uri_is_valid threw on a text that starts with "http", and the text was
\* classified by a later stage.
C11_Witness ==
    /\ output # <<>>
    /\ StartsWith(Trim(input.text), <<"h", "t", "t", "p">>)
    /\ ~GLibUriIsValid(Trim(input.text))
    /\ input.env.uriFailure = "throws"
    /\ output[1].type = "Code"

\* The text reached the Code stage: it is no Link, no Character and no Color.
ReachesCodeStage ==
    /\ output # <<>>
    /\ ~LinkMatches(input.text)
    /\ ~CharacterMatches(input.text, input.env.maxCharacters)
    /\ ~ColorMatches(input.text)

\* highlightAuto identified a language, with this relevance.
Detected(relevance) ==
    /\ input.env.hljs # <<>>
    /\ input.env.hljs[1].language # <<>>
    /\ input.env.hljs[1].relevance = relevance

\* C12: a text that reaches the Code stage is Code exactly when highlight.js
\* is loaded, a language was identified and relevance / max(1, n / 100) >= 3,
\* n being the length of the first 10,000 code units of the trimmed text,
\* and is Text otherwise.  50 code units at relevance 2 are Text; on the
\* threshold (100 at 3, 200 at 6, 10,000 of 11,000 at 300) the text is Code,
\* just below it (101 at 3, 200 at 5, 10,000 of 11,000 at 299) it is Text.
C12_CodeThreshold ==
    ReachesCodeStage =>
        LET t == Trim(input.text)
            n == Min(10000, JsLength(t))
            h == input.env.hljs
        IN  /\ output[1].type \in {"Code", "Text"}
            /\ output[1].type = "Code" <=>
                  /\ h # <<>>
                  /\ h[1].language # <<>>
                  /\ h[1].relevance * 100 >= 3 * Max(100, n)
            /\ (t = Units(5, 10) /\ Detected(2)) => output[1].type = "Text"
            /\ (t = Units(11, 12) /\ Detected(3)) => output[1].type = "Code"
            /\ (t = Units(11, 13) /\ Detected(3)) => output[1].type = "Text"
            /\ (t = Units(24, 8) /\ Detected(6)) => output[1].type = "Code"
            /\ (t = Units(24, 8) /\ Detected(5)) => output[1].type = "Text"
            /\ (t = Repeat("zalgo", 11) /\ Detected(300)) => output[1].type = "Code"
            /\ (t = Repeat("zalgo", 11) /\ Detected(299)) => output[1].type = "Text"

\* A text of more than 10,000 code units whose relevance is on the threshold
\* for its first 10,000 and below it for the whole text was classified Code.
C12_Witness ==
    /\ ReachesCodeStage
    /\ JsLength(Trim(input.text)) > 10000
    /\ Detected(300)
    /\ output[1].type = "Code"

\* The checksum that names the image file a handler's content goes to.
ImageChecksum(h) == getContent(h.offer).checksum

\* C13: the file of an image checksum is written at most once, also by
\* handlers that overlap: no two handlers are writing the file of one
\* checksum at the same time, and no handler is writing a file that exists.
C13_ImageWrittenOnce ==
    /\ \A i, j \in 1..Len(handlers) :
          (/\ i # j
           /\ handlers[i].pc = "writing"
           /\ handlers[j].pc = "writing")
             => ImageChecksum(handlers[i]) # ImageChecksum(handlers[j])
    /\ \A i \in 1..Len(handlers) :
          handlers[i].pc = "writing" => ImageChecksum(handlers[i]) \notin imageFiles

\* An image whose file exists was classified again, to the same URI and with
\* no second write.
C13_Witness ==
    \E i \in 1..Len(handlers) :
        /\ handlers[i].pc = "inserting"
        /\ handlers[i].result.type = "Image"
        /\ ~handlers[i].wrote
        /\ ImageChecksum(handlers[i]) \in imageFiles
        /\ handlers[i].result.content = ImageUri(ImageChecksum(handlers[i]))

\* What the handler at position i acquires.
Acquired(i) == getContent(handlers[i].offer)

\* C14: when the content of an event resolves while prevClipboard holds
\* (File, F), a Text whose checksum is F ends the handler there:
\* prevClipboard stays, nothing is classified, inserted or emitted.  The
\* other way round, a File whose checksum is F resolving while prevClipboard
\* holds (Text, F) is committed and goes on to classification and insert.
C14_FileThenTextSuppressed ==
    [][ \A i \in 1..Len(handlers) :
          /\ (/\ Resolve(i)
              /\ prevClipboard # <<>>
              /\ prevClipboard[1] = "File"
              /\ Acquired(i).type = "Text"
              /\ prevClipboard[2] = contentChecksum(Acquired(i)))
                => /\ prevClipboard' = prevClipboard
                   /\ handlers' = Remove(handlers, i)
                   /\ lastSignal' = lastSignal
          /\ (/\ Resolve(i)
              /\ prevClipboard # <<>>
              /\ prevClipboard[1] = "Text"
              /\ Acquired(i).type = "File"
              /\ prevClipboard[2] = contentChecksum(Acquired(i)))
                => /\ prevClipboard' = <<"File", prevClipboard[2]>>
                   /\ Len(handlers') = Len(handlers)
                   /\ handlers'[i].pc = "inserting"
                   /\ handlers'[i].result.type = "File" ]_vars

\* prevClipboard holds the file selection, the clipboard holds the text of
\* the same checksum that replaced it, and the text's handler is over.
C14_Witness ==
    /\ prevClipboard # <<>>
    /\ prevClipboard[1] = "File"
    /\ getContent(clipboard).type = "Text"
    /\ contentChecksum(getContent(clipboard)) = prevClipboard[2]
    /\ handlers = <<>>

\* The handler at position i has passed the duplicate check and is in
\* convertContent or tracker.insert.
PastDuplicateCheck(i) == handlers[i].pc \in {"writing", "inserting"}

\* C15: of the handlers in flight at one time, no two that acquired the same
\* (type, checksum) are both past the duplicate check.
C15_OneOfOverlappingDuplicates ==
    \A i, j \in 1..Len(handlers) :
        (/\ i # j
         /\ PastDuplicateCheck(i)
         /\ PastDuplicateCheck(j))
            => ContentKey(Acquired(i)) # ContentKey(Acquired(j))

\* Two events with the same content overlap: the first is past the duplicate
\* check, which committed its key, and the second is still acquiring.
C15_Witness ==
    \E i, j \in 1..Len(handlers) :
        /\ i < j
        /\ PastDuplicateCheck(i)
        /\ handlers[j].pc = "acquiring"
        /\ ContentKey(Acquired(i)) = ContentKey(Acquired(j))
        /\ prevClipboard = ContentKey(Acquired(i))

\* C16: destroy cancels the pending paste task and detaches the subscription.
\* The task pending when destroy runs is removed from the main loop, and only
\* an attached source ever injects, so that task never injects; once the
\* subscription handle is reset it stays reset and no ownership change starts
\* a handler; destroy leaves both handles at -1, and a destroy that finds
\* them there cancels nothing.
C16_DestroyCancelsAndDetaches ==
    [][/\ destroy =>
            /\ \A s \in sources : s \notin sources'
            /\ signalId' = -1
            /\ pasteSignalId' = -1
            /\ (signalId < 0 /\ pasteSignalId < 0 =>
                    sources' = sources /\ cancelled' = cancelled)
       /\ injections' # injections =>
            \E s \in sources : s \notin sources' /\ lastInjection'[1].id = s.id
       /\ signalId < 0 => signalId' < 0 /\ Len(handlers') <= Len(handlers)]_vars

\* destroy cancelled the only paste ever scheduled before it injected, and a
\* copy made by another application afterwards started no handler.
C16_Witness ==
    /\ ~keyboardAlive
    /\ signalId < 0
    /\ pasteSignalId < 0
    /\ sourceSeq = 1
    /\ cancelled = 1
    /\ injections = 0
    /\ sources = {}
    /\ handlers = <<>>
    /\ clipboard = PlainTextOffer
    /\ prevClipboard # ContentKey(getContent(PlainTextOffer))

\* The handlers whose call of tracker.insert is under way.
Inserting(hs) == {j \in 1..Len(hs) : hs[j].pc = "inserting"}

\* C17: a handler suspended when destroy ran touches no shared state when it
\* resumes: after destroy no handler step overwrites prevClipboard, calls
\* tracker.insert or emits 'clipboard'.
C17_NoTouchAfterDestroy ==
    [][(/\ signalId < 0
        /\ \E i \in 1..MaxHandlers : Resolve(i) \/ Written(i) \/ InsertDone(i))
       => /\ prevClipboard' = prevClipboard
          /\ Cardinality(Inserting(handlers')) <= Cardinality(Inserting(handlers))
          /\ lastSignal' = lastSignal]_vars

\* A handler is still awaiting its content, its classification or the
\* insert after destroy has run.
C17_Witness ==
    /\ signalId < 0
    /\ ~keyboardAlive
    /\ handlers # <<>>

\* Every release in a key sequence is of the key pressed last and not yet
\* released, and no key is left pressed at the end.
RECURSIVE Nested(_, _)
Nested(keys, held) ==
    IF keys = <<>> THEN held = <<>>
    ELSE IF Head(keys)[1] = "press"
        THEN Nested(Tail(keys), <<Head(keys)[2]>> \o held)
    ELSE /\ held # <<>>
         /\ Head(held) = Head(keys)[2]
         /\ Nested(Tail(keys), Tail(held))

TerminalPaste ==
    << <<"press", "Control_L">>, <<"press", "Shift_L">>, <<"press", "V">>,
       <<"release", "V">>, <<"release", "Shift_L">>, <<"release", "Control_L">> >>

StandardPaste ==
    << <<"press", "Control_L">>, <<"press", "v">>,
       <<"release", "v">>, <<"release", "Control_L">> >>

\* C18: when a paste source is dispatched on a live keyboard, the key
\* sequence sent is the terminal one exactly when the input purpose is
\* TERMINAL at that moment, the standard one otherwise; every key pressed is
\* released in reverse order; and the source sends one sequence and is gone,
\* its id never attached again.
C18_KeysAtFiringTime ==
    [][(injections' # injections /\ keyboardAlive) =>
          /\ lastInjection'[1].keys =
                IF purpose = "TERMINAL" THEN TerminalPaste ELSE StandardPaste
          /\ Nested(lastInjection'[1].keys, <<>>)
          /\ injections' = injections + 1
          /\ \E s \in sources : /\ lastInjection'[1].id = s.id
                                /\ sources' = sources \ {s}
          /\ \A s \in sources' : s.id # lastInjection'[1].id
          /\ lastInjection'[1].id <= sourceSeq']_vars

\* The source of a request made while the purpose was NORMAL was dispatched
\* after the focus had moved to a terminal, and sent the terminal sequence.
C18_Witness ==
    /\ lastRequest # <<>>
    /\ lastRequest[1].flag
    /\ lastRequest[1].purpose = "NORMAL"
    /\ lastInjection # <<>>
    /\ lastInjection[1].id = sourceSeq
    /\ lastInjection[1].alive
    /\ lastInjection[1].keys = TerminalPaste

\* C19: 'clipboard' is emitted only by a handler whose classification gave a
\* result and whose tracker.insert is the call that has just settled, with
\* the entry insert returned, which is not null; the handler ends with it, so
\* it emits once; and a handler that ends at acquisition, at the duplicate
\* check, at shouldSave or at a null classification emits nothing.
C19_EmitAfterInsert ==
    [][/\ lastSignal' # lastSignal =>
            /\ lastSignal'.signal = "clipboard"
            /\ lastSignal'.argument = <<"entry">>
            /\ \E i \in 1..Len(handlers) :
                  /\ handlers[i].pc = "inserting"
                  /\ handlers[i].result.type \in ItemTypes
                  /\ handlers' = Remove(handlers, i)
       /\ \A i \in 1..Len(handlers) :
            (handlers[i].pc # "inserting" /\ handlers' = Remove(handlers, i))
                => lastSignal' = lastSignal]_vars

\* Two entries were emitted while incognito mode was off, and since then a copy
\* made in incognito mode has been committed to prevClipboard and dropped.
C19_Witness ==
    /\ lastSignal.signal = "clipboard"
    /\ ~lastSignal.flip
    /\ settings.incognito
    /\ handlers = <<>>
    /\ clipboard \in ExternalOffers
    /\ prevClipboard = ContentKey(getContent(clipboard))
    /\ imageFiles = {}

\* C20: the fingerprint of a text is the checksum of all of its UTF-8 bytes,
\* and of two texts whose UTF-8 bytes differ the second, captured right after
\* the first, is not a duplicate of it.
C20_WholeUtf8 ==
    output # <<>> =>
        /\ output[1].first = Md5(Utf8(input.first))
        /\ output[1].second = Md5(Utf8(input.second))
        /\ Utf8(input.first) # Utf8(input.second) => ~output[1].duplicate

\* Two texts that differ in their last character only, after a two-byte
\* character, have been fingerprinted.
C20_Witness ==
    /\ output # <<>>
    /\ input.first = <<"e_acute", "a">>
    /\ input.second = <<"e_acute", "b">>
    /\ output[1].duplicate

\* C21: pasteEntry changes nothing of an entry but its datetime.  With
\* update-date-on-copy unset no entry changes; with it set the entry replayed
\* is stamped in the step in which pasteEntry starts, which for an Image
\* entry ends at the await of its bytes with the clipboard still untouched,
\* and the step that resumes it stamps nothing; type, content and metadata
\* never change.
C21_OnlyTimestamp ==
    [][/\ \A k \in 1..Len(entries) :
            /\ entries'[k].type = entries[k].type
            /\ entries'[k].content = entries[k].content
            /\ entries'[k].metadata = entries[k].metadata
            /\ entries'[k].datetime \in {entries[k].datetime, "now"}
            /\ PasteEntry(k) =>
                  /\ entries'[k].datetime =
                        IF settings.updateDateOnCopy THEN "now" ELSE entries[k].datetime
                  /\ \A j \in 1..Len(entries) : j # k => entries'[j] = entries[j]
                  /\ entries[k].type = "Image" =>
                        clipboard' = clipboard /\ loads' = loads + 1
       /\ ~settings.updateDateOnCopy => entries' = entries
       /\ loads' < loads => entries' = entries]_vars

\* With the setting on, the Image entry was replayed and is stamped while its
\* bytes are still being loaded and nothing has been delivered; the other
\* entries are as captured.
C21_Witness ==
    /\ settings.updateDateOnCopy
    /\ loads = 1
    /\ clipboard = EmptyOffer
    /\ lastRequest = <<>>
    /\ entries[2] = [HistoryEntries[2] EXCEPT !.datetime = "now"]
    /\ entries[1] = HistoryEntries[1]
    /\ entries[3] = HistoryEntries[3]

\* The last content committed is this image, and its capture did not persist
\* it: its file does not exist, no handler is writing or inserting it, and
\* nothing has been emitted.
PersistFailed(content) ==
    /\ content.type = "Image"
    /\ prevClipboard = ContentKey(content)
    /\ content.checksum \notin imageFiles
    /\ \A k \in 1..Len(handlers) :
          handlers[k].pc \in {"writing", "inserting"}
              => ImageChecksum(handlers[k]) # content.checksum
    /\ lastSignal = NoSignal

\* C22: when an image capture has failed to persist its bytes, a later event
\* that carries the same image passes the duplicate check and goes on to
\* classification.
C22_FailedImageRetried ==
    [][\A i \in 1..MaxHandlers :
          (Resolve(i) /\ PersistFailed(Acquired(i)))
              => ~IsDuplicate(prevClipboard, Acquired(i),
                              contentChecksum(Acquired(i)))]_vars

\* The capture of an image has failed and left nothing behind but
\* prevClipboard; the image has been copied again and its event is waiting
\* for its content.
C22_Witness ==
    /\ Len(handlers) = 1
    /\ handlers[1].pc = "acquiring"
    /\ PersistFailed(Acquired(1))
    /\ clipboard = handlers[1].offer

\* The handler at position i ends in this step and leaves no trace but the
\* one given for prevClipboard: nothing is written, inserted or emitted.
EndsUnsaved(i) ==
    /\ handlers' = Remove(handlers, i)
    /\ imageFiles' = imageFiles
    /\ lastSignal' = lastSignal

\* C23: prevClipboard is written before shouldSave is consulted.  An event
\* whose content is new and resolves while incognito is set or an excluded
\* window has the focus commits its type and checksum and ends there, with
\* nothing classified, inserted or emitted; and an event whose content
\* resolves to the type and checksum prevClipboard holds ends as a
\* duplicate, whatever the save policy says by then, so that the vetoed
\* content stays out of the history until prevClipboard changes.
C23_VetoedStaysOut ==
    [][\A i \in 1..MaxHandlers :
          Resolve(i) =>
              /\ (/\ settings.incognito \/ focusExcluded
                  /\ Acquired(i) # NoContent
                  /\ ~IsDuplicate(prevClipboard, Acquired(i),
                                  contentChecksum(Acquired(i))))
                    => /\ prevClipboard' = ContentKey(Acquired(i))
                       /\ EndsUnsaved(i)
              /\ (/\ Acquired(i) # NoContent
                  /\ prevClipboard = ContentKey(Acquired(i)))
                    => /\ prevClipboard' = prevClipboard
                       /\ EndsUnsaved(i)]_vars

\* Saving is allowed again, nothing has been emitted or written, and the
\* content on the clipboard, which prevClipboard names, has been copied once
\* more: its event is waiting for its content.
C23_Witness ==
    /\ ~settings.incognito
    /\ ~focusExcluded
    /\ lastSignal = NoSignal
    /\ imageFiles = {}
    /\ Len(handlers) = 1
    /\ handlers[1].pc = "acquiring"
    /\ handlers[1].offer = clipboard
    /\ Acquired(1) # NoContent
    /\ prevClipboard = ContentKey(Acquired(1))

\* The id with its first letter in upper case.
Capitalize(id) ==
    LET upper == [c \in {"c", "j", "t"} |->
                    CASE c = "c" -> "C" [] c = "j" -> "J" [] OTHER -> "T"]
    IN  IF id = <<>> THEN id
        ELSE <<IF Head(id) \in DOMAIN upper THEN upper[Head(id)] ELSE Head(id)>>
                \o Tail(id)

\* The detector's name for the language detected, the id when it has none.
DetectorName ==
    IF input.env.hljs[1].name = <<>> THEN input.env.hljs[1].language
    ELSE input.env.hljs[1].name

\* C24: a Code result records the language id, and as display name the
\* capitalized id when the id is at least as long as the detector's name
\* less 3, the detector's name otherwise.
C24_DisplayName ==
    (output # <<>> /\ output[1].type = "Code") =>
        /\ output[1].metadata.language[1] = input.env.hljs[1].language
        /\ output[1].metadata.language[2] =
              IF Len(input.env.hljs[1].language) >= Len(DetectorName) - 3
              THEN Capitalize(input.env.hljs[1].language)
              ELSE DetectorName

\* A text was classified Code in a language whose id, "ts", is more than 3
\* characters shorter than the detector's name for it.
C24_Witness ==
    /\ output # <<>>
    /\ output[1].type = "Code"
    /\ input.env.hljs[1].language = <<"t", "s">>
    /\ Len(DetectorName) = 10
    /\ output[1].metadata.language[2] = <<"t", "s">>

\* C25: a pasteContent call made with paste-on-copy unset only delivers, and
\* no key sequence is injected until a later call finds the setting set:
\* such a call schedules nothing, and every sequence injected follows a last
\* call that read the setting as set.
C25_FlagGatesPaste ==
    [][/\ (lastRequest' # lastRequest /\ ~lastRequest'[1].flag)
            => sourceSeq' = sourceSeq
       /\ injections' # injections
            => lastRequest # <<>> /\ lastRequest[1].flag]_vars

\* The last call read the setting as unset and delivered its content, and
\* the source of an earlier call is still attached.
C25_Witness ==
    /\ lastRequest # <<>>
    /\ ~lastRequest[1].flag
    /\ Carries(clipboard, lastRequest[1].content)
    /\ sources # {}
    /\ pasteSignalId >= 0

\* C26: at most one retention timer is attached at any time; historyTimeoutId
\* is the id of the attached timer, or -1 when none is attached; and no
\* timer is attached while the extension is disabled.
C26_OneRetentionTimer ==
    /\ Cardinality(historyTimers) <= 1
    /\ historyTimeoutId >= 0 => historyTimers = {historyTimeoutId}
    /\ historyTimeoutId < 0 => historyTimers = {}
    /\ ~enabled => historyTimers = {}

\* Two initHistoryTimeout calls overlapped at deleteOldest and each has
\* added its timer: two timers are attached, and historyTimeoutId names the
\* later one.
C26_Witness ==
    /\ enabled
    /\ suspended = 0
    /\ historyTimers = {1, 2}
    /\ historyTimeoutId = 2

=============================================================================
